---- MODULE Spec2Model ----
(***************************************************************************)
(* Model of server/src/quickfixes.ts: the quick fix that moves a           *)
(* contract's state variables into an ERC-7201 namespace struct.           *)
(*                                                                         *)
(* Text is a sequence of one-character tokens (a token stands for one      *)
(* character of the source, so offsets count tokens).  Offsets are         *)
(* 0-based; a text range [s, e] covers the tokens s+1 .. e.                *)
(***************************************************************************)
EXTENDS Integers, Sequences, FiniteSets, TLC

VARIABLES doc, prefix, contractName, variables,
          pc, pos, namespaceStructEndRange, edits, result, applied

vars == <<doc, prefix, contractName, variables,
          pc, pos, namespaceStructEndRange, edits, result, applied>>

\* `undefined` of a text_index.TextRange | undefined
None == [s |-> -1, e |-> -1]

\* ------------------------------------------------------------------ bounds
MaxContracts == 2
MaxVars == 2

\* ------------------------------------------------------------- characters
NonWordToks == {"{", "}", "(", ")", "$", ".", " ", ";", "=", "\n", "///", "@", ":", "?"}

\* \w of the regular expression: letters, digits and underscore
IsWord(t) == t \notin NonWordToks

RECURSIVE Flat(_)
Flat(ss) == IF ss = <<>> THEN <<>> ELSE Head(ss) \o Flat(Tail(ss))

\* String.prototype.includes
Includes(t, p) ==
    \E i \in 1..(Len(t) - Len(p) + 1) : SubSeq(t, i, i + Len(p) - 1) = p

\* String.prototype.indexOf for a one-character needle, 0-based, -1 if absent
IndexOf(t, tok) ==
    IF \E i \in 1..Len(t) : t[i] = tok
    THEN (CHOOSE i \in 1..Len(t) : t[i] = tok /\ \A j \in 1..(i - 1) : t[j] # tok) - 1
    ELSE -1

\* String.prototype.slice(from, to) with a negative index counted from the end
Slice(t, from, to) ==
    LET n == Len(t)
        f == IF from < 0 THEN (IF n + from < 0 THEN 0 ELSE n + from) ELSE (IF from > n THEN n ELSE from)
        e == IF to < 0 THEN (IF n + to < 0 THEN 0 ELSE n + to) ELSE (IF to > n THEN n ELSE to)
    IN  SubSeq(t, f + 1, e)

\* ---------------------------------------------------- namespace.ts (absent)
TagMarker == <<"@", "custom:storage-location erc7201", ":">>

getNamespaceId(pfx, name) == <<pfx, ".", name>>

Indent == " "

printNamespaceTemplate(ns) ==
    <<"///">> \o TagMarker \o getNamespaceId(ns.prefix, ns.contractName) \o <<"\n">>
    \o <<"struct", " ", ns.contractName, "Storage", "{">>
    \o Flat([i \in 1..Len(ns.variables) |-> ns.variables[i].content])
    \o <<"}", "function", " ", "_get", ns.contractName, "Storage", "(", ")", "{", "}">>

\* ---------------------------------------------- helpers/slang.ts (absent)
\* TextDocument.positionAt: the lines before the offset, and the characters
\* since the last line break
positionAt(text, off) ==
    LET breaks == {i \in 1..off : text[i] = "\n"}
        lastBreak == IF breaks = {} THEN 0 ELSE CHOOSE i \in breaks : \A j \in breaks : j <= i
    IN  [line |-> Cardinality(breaks), character |-> off - lastBreak]

slangToVSCodeRange(text, r) ==
    [start |-> positionAt(text, r.s), end |-> positionAt(text, r.e)]

\* --------------------------------------------------- documents (the input)
\* A contract is [name, members]; a member is [k, name, pre, body]: `pre` is
\* the text in front of the node the engine looks at, `body` that node's text.
Names == {"Box", "Other"}
Prefixes == {"p", "q"}
NameSeq == <<"a", "b", "c", "d">>

VarMember(n) == [k |-> "var", name |-> n, pre |-> <<"\n">>, body |-> <<"T", " ", n, ";">>]
FnMember(b) == [k |-> "fn", name |-> "f", pre |-> <<"\n", "function", " ", "f", "(", ")">>, body |-> b]
DocMember(toks) == [k |-> "doc", name |-> "", pre |-> <<"\n">>, body |-> <<"///">> \o toks]
StructMember == [k |-> "struct", name |-> "S", pre |-> <<"\n">>, body |-> <<"struct", " ", "S", "{", "T", " ", "x", ";", "}">>]
JunkMember == [k |-> "junk", name |-> "", pre |-> <<>>, body |-> <<"?">>]

MemberText(m) == m.pre \o m.body

\* NonterminalNode.unparse() of a ContractDefinition
ContractText(c) ==
    <<"contract", " ", c.name, "{">>
    \o Flat([i \in 1..Len(c.members) |-> MemberText(c.members[i])])
    \o <<"\n", "}", "\n">>

\* TextDocument.getText()
DocText(d) == Flat([i \in 1..Len(d) |-> ContractText(d[i])])

RECURSIVE SumLen(_, _)
SumLen(ts, n) == IF n = 0 THEN 0 ELSE Len(ts[n]) + SumLen(ts, n - 1)

\* offset of contract i in the document
ContractStart(d, i) == SumLen([j \in 1..Len(d) |-> ContractText(d[j])], i - 1)

\* offset of the node of member m of contract i
MemberStart(d, i, m) ==
    ContractStart(d, i) + 4
    + SumLen([j \in 1..Len(d[i].members) |-> MemberText(d[i].members[j])], m - 1)
    + Len(d[i].members[m].pre)

MemberRange(d, i, m) ==
    [s |-> MemberStart(d, i, m), e |-> MemberStart(d, i, m) + Len(d[i].members[m].body)]

RECURSIVE SelectIdx(_, _, _)
SelectIdx(ms, kind, n) ==
    IF n = 0 THEN <<>>
    ELSE SelectIdx(ms, kind, n - 1) \o (IF ms[n].k = kind THEN <<n>> ELSE <<>>)

\* the member indexes of one kind, in document order
MembersOfKind(c, kind) == SelectIdx(c.members, kind, Len(c.members))

\* the Variable values the diagnostics hand over for contract i
VariablesOf(d, i) ==
    LET idx == MembersOfKind(d[i], "var")
    IN  [j \in 1..Len(idx) |->
            [name |-> <<d[i].members[idx[j]].name>>,
             content |-> d[i].members[idx[j]].body,
             range |-> slangToVSCodeRange(DocText(d), MemberRange(d, i, idx[j]))]]

RECURSIVE SubLists(_)
SubLists(s) ==
    IF s = <<>> THEN {<<>>}
    ELSE LET rest == SubLists(Tail(s))
         IN  rest \cup {<<Head(s)>> \o r : r \in rest}

\* ------------------------------------------------------ the rewrite engine
\* parse(ContractDefinition, unparse()).isValid
IsValidMut(c) == TRUE

IsValid(c) ==
    LET text == ContractText(c)
    IN  \A i \in 1..Len(text) : text[i] # "?"

expectedLine(cn) ==
    <<cn, "Storage", " ", "storage", " ", "$", " ", "=", " ", "_get", cn, "Storage", "(", ")", ";">>

\* new RegExp(`\\b${name}\\b`) matches at 1-based index i of t
MatchAt(t, name, i) ==
    /\ i + Len(name) - 1 <= Len(t)
    /\ SubSeq(t, i, i + Len(name) - 1) = name
    /\ (i = 1 \/ ~IsWord(t[i - 1]))
    /\ (i + Len(name) > Len(t) \/ ~IsWord(t[i + Len(name)]))

\* replacement.replace(regex, `$.${name}`) with the g flag, from index i on
RECURSIVE ReplaceFrom(_, _, _)
ReplaceFrom(t, name, i) ==
    IF i > Len(t) THEN <<>>
    ELSE IF MatchAt(t, name, i)
         THEN <<"$", ".">> \o name \o ReplaceFrom(t, name, i + Len(name))
         ELSE <<t[i]>> \o ReplaceFrom(t, name, i + 1)

\* variables.forEach(...) over the first n variables
RECURSIVE ReplaceVariables(_, _, _)
ReplaceVariables(t, vs, n) ==
    IF n = 0 THEN t
    ELSE ReplaceFrom(ReplaceVariables(t, vs, n - 1), vs[n].name, 1)

NeedsLineMut(functionText, replacement, line) == replacement # functionText

NeedsLine(functionText, replacement, line) ==
    replacement # functionText /\ ~Includes(replacement, line)

\* the new text editNamespaceVariablesInFunctions computes for one body
RewriteBody(functionText, cn, vs) ==
    LET replacement == ReplaceVariables(functionText, vs, Len(vs))
        openingBracketIndex == IndexOf(replacement, "{")
    IN  IF NeedsLine(functionText, replacement, expectedLine(cn))
        THEN Slice(replacement, 0, openingBracketIndex)
             \o <<"{", "\n", " ">> \o expectedLine(cn) \o <<"\n">>
             \o Slice(replacement, openingBracketIndex + 1, Len(replacement))
        ELSE replacement

editNamespaceVariablesInFunctions(d, i, cn, vs) ==
    LET idx == MembersOfKind(d[i], "fn")
    IN  [j \in 1..Len(idx) |->
            [range |-> slangToVSCodeRange(DocText(d), MemberRange(d, i, idx[j])),
             newText |-> RewriteBody(d[i].members[idx[j]].body, cn, vs)]]

\* the text of the first SingleLineNatSpecComment leaf of text ct at index ni
NatspecText(ct, ni) ==
    LET rest == SubSeq(ct, ni + 1, Len(ct))
        nl == IndexOf(rest, "\n")
    IN  IF nl = -1 THEN rest ELSE SubSeq(rest, 1, nl)

HasTagMut(natspecText, pfx, cn) == Includes(natspecText, TagMarker)

HasTag(natspecText, pfx, cn) ==
    Includes(natspecText, TagMarker \o getNamespaceId(pfx, cn))

getNamespaceStructEndRange(d, i, pfx, cn) ==
    LET ct == ContractText(d[i])
        ni == IndexOf(ct, "///")
        ci == IndexOf(ct, "}")
    IN  IF ni # -1 /\ HasTag(NatspecText(ct, ni), pfx, cn)
        THEN [s |-> ContractStart(d, i) + ci, e |-> ContractStart(d, i) + ci + 1]
        ELSE None

editNewNamespaceMut(es, pfx, cn, vs) ==
    es \o [j \in 1..Len(vs) |-> [range |-> vs[j].range, newText |-> <<>>]]

editNewNamespace(es, pfx, cn, vs) ==
    es \o <<[range |-> vs[1].range,
             newText |-> printNamespaceTemplate(
                 [contractName |-> cn, prefix |-> pfx, variables |-> vs])]>>
       \o [j \in 1..(Len(vs) - 1) |-> [range |-> vs[j + 1].range, newText |-> <<>>]]

editExistingNamespace(es, structEndRange, text, vs) ==
    es \o Flat([j \in 1..Len(vs) |->
            << [range |-> vs[j].range, newText |-> <<>>],
               [range |-> slangToVSCodeRange(text, structEndRange),
                newText |-> <<Indent>> \o vs[j].content \o <<"\n", Indent, "}">>] >>])

\* ------------------------------------------------- applying the returned fix
\* Position comparison of the edit-application layer
PosLess(p, q) == p.line < q.line \/ (p.line = q.line /\ p.character < q.character)

\* TextDocument.offsetAt
offsetAt(text, p) == CHOOSE o \in 0..Len(text) : positionAt(text, o) = p

\* stable sort of the edits by start position (insertion from the right)
RECURSIVE InsertEdit(_, _)
InsertEdit(e, sorted) ==
    IF sorted = <<>> THEN <<e>>
    ELSE IF PosLess(Head(sorted).range.start, e.range.start)
         THEN <<Head(sorted)>> \o InsertEdit(e, Tail(sorted))
         ELSE <<e>> \o sorted

RECURSIVE SortEdits(_)
SortEdits(es) == IF es = <<>> THEN <<>> ELSE InsertEdit(Head(es), SortEdits(Tail(es)))

\* two ranges of one batch overlap
Overlap(r1, r2) == PosLess(r1.start, r2.end) /\ PosLess(r2.start, r1.end)

OverlappingBatch(es) ==
    \E i, j \in 1..Len(es) : i < j /\ Overlap(es[i].range, es[j].range)

RECURSIVE ApplySorted(_, _, _)
ApplySorted(text, sorted, last) ==
    IF sorted = <<>> THEN SubSeq(text, last + 1, Len(text))
    ELSE LET e == Head(sorted)
             so == offsetAt(text, e.range.start)
             eo == offsetAt(text, e.range.end)
         IN  SubSeq(text, last + 1, so) \o e.newText \o ApplySorted(text, Tail(sorted), eo)

applyEdits(text, es) == ApplySorted(text, SortEdits(es), 0)

\* ------------------------------------------------------------------ inputs
BodyEmpty == <<"{", "}">>
BodyNone == <<";">>
BodyRef == <<"{", "a", "=", "1", ";", "}">>
BodyMulti == <<"{", "a", "=", "b", ";", "a", "=", "c", ";", "}">>
BodySubword == <<"{", "a", "b", "=", "x", "a", ";", "}">>
BodyMigrated(cn) == <<"{", "\n", " ">> \o expectedLine(cn) \o <<"\n", "$", ".", "a", "=", "1", ";", "}">>
BodyLine(cn) == <<"{", "\n", " ">> \o expectedLine(cn) \o <<"\n", "b", "=", "1", ";", "}">>

Bodies(cn) == {BodyEmpty, BodyNone, BodyRef, BodyMulti, BodySubword, BodyMigrated(cn), BodyLine(cn)}

Tag(pfx, toks) == DocMember(TagMarker \o <<pfx, ".">> \o toks)

\* what stands in front of the variables: nothing, a commented struct, a bare
\* struct or a bare tag comment
Containers ==
    { <<>>,
      <<StructMember>>,
      <<DocMember(<<" ", "note">>), StructMember>>,
      <<Tag("p", <<"Box">>), StructMember>>,
      <<Tag("p", <<"Other">>), StructMember>>,
      <<Tag("p", <<"Box", "V2">>), StructMember>> }

Leading == {<<>>, <<FnMember(BodyRef)>>}

Trailing(cn) == {<<>>, <<FnMember(BodyRef), FnMember(BodyEmpty)>>} \cup {<<FnMember(b)>> : b \in Bodies(cn)}

Declared == {[j \in 1..n |-> VarMember(NameSeq[j])] : n \in 0..MaxVars}

MainContracts ==
    { [name |-> "Box", members |-> l \o c \o v \o t] :
        l \in Leading, c \in Containers, v \in Declared, t \in Trailing("Box") }

\* the target contract as it stands among other contracts
PlainContracts ==
    { [name |-> "Box", members |-> c \o v \o t] :
        c \in {<<>>, <<Tag("p", <<"Box">>), StructMember>>},
        v \in Declared,
        t \in {<<>>, <<FnMember(BodyRef)>>, <<FnMember(BodyMulti)>>} }

OtherContracts ==
    { [name |-> "Other", members |-> <<Tag("p", <<"Other">>), StructMember, VarMember("a"), FnMember(BodyRef)>>],
      [name |-> "Box", members |-> <<VarMember("a"), FnMember(BodyRef), JunkMember>>],
      [name |-> "Box", members |-> <<FnMember(BodyMulti)>>] }

Docs ==
    {<<m>> : m \in MainContracts}
    \cup UNION { { [i \in 1..n |-> IF i = k THEN m ELSE o[i]] :
                     m \in PlainContracts, o \in [1..n -> OtherContracts] } :
                 n \in 2..MaxContracts, k \in 1..MaxContracts }

VariableChoices(d, cn) ==
    {<<>>} \cup UNION { SubLists(VariablesOf(d, i)) : i \in {j \in 1..Len(d) : d[j].name = cn} }

\* ------------------------------------------------------------------ actions
Init ==
    /\ doc \in Docs
    /\ prefix \in Prefixes
    /\ contractName \in Names
    /\ variables \in VariableChoices(doc, contractName)
    /\ pc = "scan"
    /\ pos = 0
    /\ namespaceStructEndRange = None
    /\ edits = <<>>
    /\ result = "pending"
    /\ applied = [status |-> "none", text |-> <<>>]

\* lines 32-42: the next contract does not parse on its own
ScanInvalid ==
    /\ pc = "scan" /\ pos < Len(doc)
    /\ ~IsValid(doc[pos + 1])
    /\ pos' = pos + 1
    /\ UNCHANGED <<doc, prefix, contractName, variables, pc, namespaceStructEndRange, edits, result, applied>>

\* lines 47-49: the next contract has another name
ScanMismatch ==
    /\ pc = "scan" /\ pos < Len(doc)
    /\ IsValid(doc[pos + 1])
    /\ doc[pos + 1].name # contractName
    /\ pos' = pos + 1
    /\ UNCHANGED <<doc, prefix, contractName, variables, pc, namespaceStructEndRange, edits, result, applied>>

\* lines 50-56: the contract looked for; process it and leave the loop
ScanMatch ==
    /\ pc = "scan" /\ pos < Len(doc)
    /\ IsValid(doc[pos + 1])
    /\ doc[pos + 1].name = contractName
    /\ pos' = pos + 1
    /\ namespaceStructEndRange' = getNamespaceStructEndRange(doc, pos + 1, prefix, contractName)
    /\ edits' = edits \o editNamespaceVariablesInFunctions(doc, pos + 1, contractName, variables)
    /\ pc' = "compose"
    /\ UNCHANGED <<doc, prefix, contractName, variables, result, applied>>

\* line 32: no contract definition is left
ScanEnd ==
    /\ pc = "scan" /\ pos = Len(doc)
    /\ pc' = "compose"
    /\ UNCHANGED <<doc, prefix, contractName, variables, pos, namespaceStructEndRange, edits, result, applied>>

NoVariablesMut == FALSE

NoVariables == Len(variables) = 0

\* lines 59-61
ReturnUndefined ==
    /\ pc = "compose"
    /\ NoVariables
    /\ result' = "undefined"
    /\ pc' = "done"
    /\ UNCHANGED <<doc, prefix, contractName, variables, pos, namespaceStructEndRange, edits, applied>>

\* lines 63-64, 69-79; reading variables[0].range of an empty list throws
ReturnNewNamespace ==
    /\ pc = "compose"
    /\ ~NoVariables
    /\ namespaceStructEndRange = None
    /\ IF Len(variables) = 0
       THEN /\ result' = "threw"
            /\ pc' = "done"
            /\ UNCHANGED edits
       ELSE /\ edits' = editNewNamespace(edits, prefix, contractName, variables)
            /\ result' = "fix"
            /\ pc' = "returned"
    /\ UNCHANGED <<doc, prefix, contractName, variables, pos, namespaceStructEndRange, applied>>

\* lines 65-66, 69-79
ReturnExistingNamespace ==
    /\ pc = "compose"
    /\ ~NoVariables
    /\ namespaceStructEndRange # None
    /\ edits' = editExistingNamespace(edits, namespaceStructEndRange, DocText(doc), variables)
    /\ result' = "fix"
    /\ pc' = "returned"
    /\ UNCHANGED <<doc, prefix, contractName, variables, pos, namespaceStructEndRange, applied>>

\* the host applies the batch to the snapshot it was computed against
ApplyFix ==
    /\ pc = "returned"
    /\ ~OverlappingBatch(edits)
    /\ applied' = [status |-> "applied", text |-> applyEdits(DocText(doc), edits)]
    /\ pc' = "done"
    /\ UNCHANGED <<doc, prefix, contractName, variables, pos, namespaceStructEndRange, edits, result>>

\* the host refuses a batch with overlapping ranges
RejectFix ==
    /\ pc = "returned"
    /\ OverlappingBatch(edits)
    /\ applied' = [status |-> "rejected", text |-> DocText(doc)]
    /\ pc' = "done"
    /\ UNCHANGED <<doc, prefix, contractName, variables, pos, namespaceStructEndRange, edits, result>>

Next ==
    \/ ScanInvalid
    \/ ScanMismatch
    \/ ScanMatch
    \/ ScanEnd
    \/ ReturnUndefined
    \/ ReturnNewNamespace
    \/ ReturnExistingNamespace
    \/ ApplyFix
    \/ RejectFix

Spec == Init /\ [][Next]_vars

\* ------------------------------------------------------------- properties
Finished == pc \in {"returned", "done"}

Parses(c) ==
    LET ct == ContractText(c)
    IN  \A k \in 1..Len(ct) : ct[k] # "?"

\* the first contract, in document order, that parses on its own and carries
\* the name looked for; 0 when there is none
Target ==
    LET hits == {i \in 1..Len(doc) : doc[i].name = contractName /\ Parses(doc[i])}
    IN  IF hits = {} THEN 0 ELSE CHOOSE i \in hits : \A j \in hits : i <= j

\* the function bodies of contract t, in lexical order
BodiesOf(t) == IF t = 0 THEN <<>> ELSE MembersOfKind(doc[t], "fn")

\* the ranges of the function bodies of contract t
BodyRanges(t) ==
    LET tb == BodiesOf(t)
        text == DocText(doc)
    IN  [j \in 1..Len(tb) |-> slangToVSCodeRange(text, MemberRange(doc, t, tb[j]))]

BodyTexts(t) ==
    LET tb == BodiesOf(t)
    IN  [j \in 1..Len(tb) |-> doc[t].members[tb[j]].body]

\* the body holds a whole-word occurrence of a migrated variable's name
HasReference(t) ==
    \E v \in 1..Len(variables) : \E i \in 1..Len(t) : MatchAt(t, variables[v].name, i)

CountOf(t, p) ==
    Cardinality({i \in 1..(Len(t) - Len(p) + 1) : SubSeq(t, i, i + Len(p) - 1) = p})

RangesOverlap(r1, r2) ==
    LET before(p, q) == p.line < q.line \/ (p.line = q.line /\ p.character < q.character)
    IN  before(r1.start, r2.end) /\ before(r2.start, r1.end)

RECURSIVE StripSpace(_)
StripSpace(t) ==
    IF t = <<>> THEN <<>>
    ELSE (IF Head(t) \in {" ", "\n"} THEN <<>> ELSE <<Head(t)>>) \o StripSpace(Tail(t))

\* where the first documentation comment of text ct starts, 0 when it has none
FirstNatspecAt(ct) ==
    LET at == {i \in 1..Len(ct) : ct[i] = "///"}
    IN  IF at = {} THEN 0 ELSE CHOOSE i \in at : \A j \in at : i <= j

\* the text of the documentation comment of ct that starts at index from
CommentText(ct, from) ==
    LET ends == {i \in from..Len(ct) : ct[i] = "\n"}
        to == CHOOSE i \in ends : \A j \in ends : i <= j
    IN  SubSeq(ct, from, to - 1)

\* the first documentation comment of the target contract carries the tag
\* with the namespace id of (prefix, contractName)
MatchingContainer ==
    LET t == Target
        ct == IF t = 0 THEN <<>> ELSE ContractText(doc[t])
        from == FirstNatspecAt(ct)
    IN  /\ from # 0
        /\ Includes(CommentText(ct, from), TagMarker \o getNamespaceId(prefix, contractName))

\* the first documentation comment of the target contract carries a tag
TaggedContainer ==
    LET t == Target
        ct == IF t = 0 THEN <<>> ELSE ContractText(doc[t])
        from == FirstNatspecAt(ct)
    IN  from # 0 /\ Includes(CommentText(ct, from), TagMarker)

UsedNew ==
    LET template == printNamespaceTemplate(
            [contractName |-> contractName, prefix |-> prefix, variables |-> variables])
    IN  \E k \in 1..Len(edits) : edits[k].newText = template

UsedExisting ==
    \E k \in 1..Len(edits) : \E v \in 1..Len(variables) :
        edits[k].newText = <<Indent>> \o variables[v].content \o <<"\n", Indent, "}">>

\* the reported range is that of the first closing brace after the first
\* documentation comment of the target contract
InsertionPointIsStructural ==
    LET t == Target
        ct == ContractText(doc[t])
        from == FirstNatspecAt(ct)
        closes == {i \in from..Len(ct) : ct[i] = "}"}
        close == CHOOSE i \in closes : \A j \in closes : i <= j
        start == ContractStart(doc, t)
    IN  namespaceStructEndRange = [s |-> start + close - 1, e |-> start + close]

\* C9: a reported insertion point is the first closing brace after the first
\* documentation comment of the target contract.
C9_StructuralInsertionPoint ==
    (pc # "scan" /\ namespaceStructEndRange # None) => InsertionPointIsStructural

\* C1: running the body rewrite again on the text a returned fix gives a
\* function body changes nothing (the fix is idempotent on function bodies).
C1_Idempotent ==
    result = "fix" =>
        \A j \in 1..Len(BodiesOf(Target)) :
            RewriteBody(edits[j].newText, contractName, variables) = edits[j].newText

\* C2: a function body of the target contract without a whole-word reference
\* to a migrated variable has no edit on its range in the returned fix.
C2_NonInterference ==
    result = "fix" =>
        LET t == Target
            texts == BodyTexts(t)
            ranges == BodyRanges(t)
        IN  \A j \in 1..Len(texts) :
                ~HasReference(texts[j]) =>
                    \A k \in 1..Len(edits) : edits[k].range # ranges[j]

\* C3: the rewritten text of every function body of the target contract that
\* references a migrated variable holds the accessor-binding line exactly once.
C3_Completeness ==
    pc # "scan" =>
        LET t == Target
            texts == BodyTexts(t)
            ranges == BodyRanges(t)
        IN  \A j \in 1..Len(texts) :
                HasReference(texts[j]) =>
                    /\ edits[j].range = ranges[j]
                    /\ CountOf(edits[j].newText, expectedLine(contractName)) = 1

C3_Witness ==
    /\ result = "fix"
    /\ Len(variables) > 1
    /\ LET texts == BodyTexts(Target)
       IN  \E j \in 1..Len(texts) :
              /\ HasReference(texts[j])
              /\ \/ Includes(texts[j], expectedLine(contractName))
                 \/ /\ \E i \in 1..Len(texts[j]) : MatchAt(texts[j], variables[1].name, i)
                    /\ \E i \in 1..Len(texts[j]) : MatchAt(texts[j], variables[2].name, i)

\* C4: with no container detected, the edits after the function-body edits are
\* the template on variables[0].range, then one deletion per other variable,
\* and each variable's range is edited exactly once in the whole batch.
C4_NewContainer ==
    (result = "fix" /\ namespaceStructEndRange = None) =>
        LET nb == Len(BodiesOf(Target))
            n == Len(variables)
        IN  /\ Len(edits) = nb + n
            /\ edits[nb + 1] =
                 [range |-> variables[1].range,
                  newText |-> printNamespaceTemplate(
                      [contractName |-> contractName, prefix |-> prefix, variables |-> variables])]
            /\ \A j \in 2..n : edits[nb + j] = [range |-> variables[j].range, newText |-> <<>>]
            /\ \A j \in 1..n :
                 Cardinality({k \in 1..Len(edits) : edits[k].range = variables[j].range}) = 1

C4_Witness ==
    /\ result = "fix"
    /\ namespaceStructEndRange = None
    /\ Len(variables) >= 2
    /\ Len(BodiesOf(Target)) >= 1

\* C5: with a container detected (at its own closing brace), every variable's
\* range is emptied and the applied text shows the declarations, in input
\* order, right before the one closing brace of the container (none is added).
C5_ExistingOrder ==
    (pc = "done" /\ result = "fix" /\ namespaceStructEndRange # None /\ InsertionPointIsStructural) =>
        /\ \A j \in 1..Len(variables) :
              \E k \in 1..Len(edits) :
                  edits[k] = [range |-> variables[j].range, newText |-> <<>>]
        /\ applied.status = "applied"
        /\ Includes(StripSpace(applied.text),
                    StripSpace(Flat([j \in 1..Len(variables) |-> variables[j].content])) \o <<"}">>)
        /\ CountOf(applied.text, <<"}">>) = CountOf(DocText(doc), <<"}">>)

\* C6: the ranges of the edits of a returned fix do not overlap pairwise
\* (stated for the fixes whose insertion point, if any, is the container's
\* own closing brace).
C6_NonOverlapping ==
    (result = "fix" /\ (namespaceStructEndRange = None \/ InsertionPointIsStructural)) =>
        \A i, j \in 1..Len(edits) :
            i < j => ~RangesOverlap(edits[i].range, edits[j].range)

\* C7: an empty variable list gives no fix, and a fix is returned only for a
\* non-empty variable list.
C7_EmptyNoFix ==
    Finished =>
        /\ (variables = <<>>) <=> (result = "undefined")
        /\ (variables # <<>>) <=> (result = "fix")

C7_Witness ==
    /\ result = "undefined"
    /\ edits # <<>>
    /\ namespaceStructEndRange # None

\* C8: the scan stops on the first contract that parses on its own and has the
\* name looked for; only that contract's bodies are rewritten and only it is
\* searched for a container; every other contract is passed without edits.
C8_FirstMatchOnly ==
    LET t == Target
    IN  /\ pc = "scan" =>
              /\ edits = <<>>
              /\ namespaceStructEndRange = None
              /\ (t = 0 \/ pos < t)
        /\ pc # "scan" =>
              LET ranges == BodyRanges(t)
              IN  /\ pos = (IF t = 0 THEN Len(doc) ELSE t)
                  /\ Len(edits) >= Len(ranges)
                  /\ \A j \in 1..Len(ranges) : edits[j].range = ranges[j]
                  /\ pc = "compose" => Len(edits) = Len(ranges)
                  /\ t = 0 => namespaceStructEndRange = None
                  /\ (t # 0 /\ namespaceStructEndRange # None) =>
                        /\ ContractStart(doc, t) <= namespaceStructEndRange.s
                        /\ namespaceStructEndRange.e <= ContractStart(doc, t) + Len(ContractText(doc[t]))

C8_Witness ==
    /\ result = "fix"
    /\ Len(doc) >= 2
    /\ Target = 1
    /\ doc[2].name = contractName
    /\ Parses(doc[2])
    /\ MembersOfKind(doc[2], "fn") # <<>>
    /\ MembersOfKind(doc[1], "fn") # <<>>

====
